---- MODULE Spec2Model ----
(***************************************************************************)
(* Model of the Airthings exporter's collector (src/main.go, src/api.go):  *)
(* concurrent Collect calls, each running discover() and then              *)
(* retrieveMetrics() under the exporter mutex, against a token source and  *)
(* a remote API whose answers are chosen nondeterministically.             *)
(***************************************************************************)
EXTENDS Integers, Sequences, FiniteSets, Bags, TLC

(***************************************************************************)
(* Bounds of the model.                                                    *)
(***************************************************************************)
\* number of goroutines that may call Collect concurrently
NumProcs == 2
\* the clock stops advancing here (minutes)
MaxTime == 32

Procs == 1..NumProcs

\* the clock advances by one of these amounts (minutes)
TickSteps == {30, 31}

(***************************************************************************)
(* Time.  time.Time is modelled in whole minutes; the zero time.Time is 0  *)
(* and time.Now() is always later than it.                                 *)
(***************************************************************************)
ZeroTime == 0
StartTime == 1
RefreshMinutes == 30

IsZero(t) == t = ZeroTime

\* time.Since(t).Minutes(), read on the clock value nowT
SinceMinutes(nowT, t) == nowT - t

(***************************************************************************)
(* api.go: the sample keys and the wire types.                             *)
(***************************************************************************)
Battery == "battery"
CO2 == "co2"
Humidity == "humidity"
Pm1 == "pm1"
Pm25 == "pm25"
Pressure == "pressure"
Radon == "radonShortTermAvg"
Temperature == "temp"
VOC == "voc"
DeviceType == "relayDeviceType"

\* a decoded JSON value of AirthingsMetricsResult.Data (type any): a JSON
\* number decodes to float64, a JSON string to string
JsonNumber(n) == [type |-> "float64", num |-> n, str |-> ""]
JsonString(s) == [type |-> "string", num |-> 0, str |-> s]

\* the sample keys and values the remote API answers with in this model
SampleKeys == {CO2, Temperature, DeviceType}
SampleValues == {JsonNumber(450), JsonString("wave_plus")}

\* AirthingsMetricsResult.Data: a map from some of the keys to values; co2 and
\* relayDeviceType come as a number or as a string, temp as a number
SampleData ==
    {data \in UNION {[S -> SampleValues] : S \in SUBSET SampleKeys} :
        Temperature \in DOMAIN data => data[Temperature].type = "float64"}
EmptyData == << >>

\* AirthingDevice as decoded from the inventory response
AirthingDevice(id, segName, locName) ==
    [Id |-> id, DeviceType |-> "WAVE_PLUS", Sensors |-> <<"co2", "temp">>,
     Segment |-> [Id |-> "s-" \o id, Name |-> segName, Active |-> TRUE],
     Location |-> [Id |-> "l-" \o id, Name |-> locName]]

\* the devices the remote inventory may list
RemoteDevices == {AirthingDevice("d1", "Office", "HQ"), AirthingDevice("d2", "Lab", "Annex")}

\* AirthingsDevicesResult.Devices of a decoded inventory response: some of
\* the remote devices, each listed once (ids are serial numbers), in any order
DeviceLists ==
    {ds \in UNION {[1..n -> RemoteDevices] : n \in 0..Cardinality(RemoteDevices)} :
        \A i, j \in DOMAIN ds : ds[i] = ds[j] => i = j}

(***************************************************************************)
(* main.go: the metric registry.                                           *)
(***************************************************************************)
namespace == "airthings"
labelNames == <<"device", "segment", "location">>

\* prometheus.BuildFQName(namespace, subsystem, name)
BuildFQName(ns, subsystem, name) == ns \o "_" \o subsystem \o "_" \o name

newMetric(metricName, docString, t) ==
    [Desc |-> [fqName |-> BuildFQName(namespace, "cloud", metricName),
               help |-> docString, variableLabels |-> labelNames],
     Type |-> t]

airthingMetrics ==
    (Battery :> newMetric("battery", "Battery charge capacity", "GaugeValue")) @@
    (CO2 :> newMetric("co2", "CO2 levels", "GaugeValue")) @@
    (Humidity :> newMetric("humidity", "Humidity", "GaugeValue")) @@
    (Pm1 :> newMetric("pm1", "Extremely fine particles, less than 1 microns", "GaugeValue")) @@
    (Pm25 :> newMetric("pm25", "Fine particles, less than 2.5 microns", "GaugeValue")) @@
    (Pressure :> newMetric("air_pressure", "Pressure", "GaugeValue")) @@
    (Radon :> newMetric("radon", "Radon, short term average", "GaugeValue")) @@
    (Temperature :> newMetric("temperature", "Temperature", "GaugeValue")) @@
    (VOC :> newMetric("voc", "Volatile organic compounds", "GaugeValue"))

\* the Device struct built from one inventory entry
Device(r) == [id |-> r.Id, segment |-> r.Segment.Name, location |-> r.Location.Name]

\* the loop of discover() over result.Devices
RECURSIVE BuildDevices(_)
BuildDevices(rs) ==
    IF rs = << >> THEN << >>
    ELSE <<Device(Head(rs))>> \o BuildDevices(Tail(rs))

\* prometheus.MustNewConstMetric(desc, valueType, value, labelValues...)
MustNewConstMetric(desc, valueType, value, l1, l2, l3) ==
    [desc |-> desc, valueType |-> valueType, value |-> value, labelValues |-> <<l1, l2, l3>>]

\* the two tests of retrieveMetrics' inner loop: the key is in e.metrics and
\* the value asserts to float64
IsFloat64(data) == data.type = "float64"

\* a bug to compare with: no test of the value's type
EmitsAnyValue(metric, data) == metric \in DOMAIN airthingMetrics

Emits(metric, data) == metric \in DOMAIN airthingMetrics /\ IsFloat64(data)

\* a bug to compare with: the segment and location labels in the wrong order
MetricForLabelsSwapped(d, metric, data) ==
    MustNewConstMetric(airthingMetrics[metric].Desc, airthingMetrics[metric].Type,
                       data.num, d.id, d.location, d.segment)

\* the record retrieveMetrics sends for one reading of device d
MetricFor(d, metric, data) ==
    MustNewConstMetric(airthingMetrics[metric].Desc, airthingMetrics[metric].Type,
                       data.num, d.id, d.segment, d.location)

\* the keys of one response that produce a record
EmittedKeys(resultData) == {k \in DOMAIN resultData : Emits(k, resultData[k])}

\* Go ranges over a map in an unspecified order: every order of the keys
Orderings(S) == {f \in [1..Cardinality(S) -> S] : \A i, j \in 1..Cardinality(S) : f[i] = f[j] => i = j}

(***************************************************************************)
(* The collaborators: the oauth2 token source and the resty client.        *)
(***************************************************************************)
\* a call log entry / an answer of a collaborator, in one shape
Response(kind, devices, data) == [kind |-> kind, devices |-> devices, data |-> data]

\* tokenSource.Token() returns a token or an error
TokenResponses == {Response("ok", << >>, EmptyData), Response("error", << >>, EmptyData)}

\* what GET /v1/devices can come back as: no response at all, a 2xx JSON body
\* that does not decode, a non-2xx status, or a 2xx body holding a device list
InventoryResponses ==
    {Response(k, << >>, EmptyData) : k \in {"transport_error", "malformed_body", "non_2xx"}}
    \cup {Response("ok", ds, EmptyData) : ds \in DeviceLists}

\* what GET /v1/devices/{serialNumber}/latest-samples can come back as
SampleResponses ==
    {Response(k, << >>, EmptyData) : k \in {"transport_error", "malformed_body", "non_2xx"}}
    \cup {Response("ok", << >>, data) : data \in SampleData}

\* resty's Get returns an error when the transport fails or a 2xx JSON body
\* does not unmarshal; a non-2xx status is a response, not an error
GetErr(resp) == resp.kind \in {"transport_error", "malformed_body"}

\* resp.Result(): the struct given to SetResult, filled only from a 2xx body
ResultDevices(resp) == IF resp.kind = "ok" THEN resp.devices ELSE << >>
ResultData(resp) == IF resp.kind = "ok" THEN resp.data ELSE EmptyData

(***************************************************************************)
(* State.                                                                  *)
(***************************************************************************)
VARIABLES
    now,            \* the clock read by time.Now() and time.Since()
    mutex,          \* Exporter.mutex: TRUE when locked
    deviceConfig,   \* Exporter.deviceConfig: [lastUpdate, devices]
    pc,             \* where each Collect call stands
    rangeDevs,      \* the slice retrieveMetrics ranges over, per call
    idx,            \* the position of that range loop, per call
    ch,             \* the metrics each call has sent on its channel
    calls,          \* history: the remote calls each call has made, with their answers
    refresh,        \* history: what discover() did in each call
    snap,           \* history: deviceConfig and the clock when discover() began, and
                    \* when and how the latest refresh attempt before it ended
    ever,           \* history: whether any refresh was attempted, and whether any replaced the
                    \* list; when the latest attempt and the one before it began, when the
                    \* latest ended and how
    described       \* what the Describe call in progress has sent on its channel

vars == <<now, mutex, deviceConfig, pc, rangeDevs, idx, ch, calls, refresh, snap, ever, described>>

NoSnap == [lastUpdate |-> ZeroTime, devices |-> << >>, at |-> ZeroTime,
           priorEnded |-> ZeroTime, priorOutcome |-> "none"]

\* no Describe call is in progress
NoDescribe == [sent |-> EmptyBag, whileLocked |-> FALSE]

Logged(op, dev, resp) == [op |-> op, dev |-> dev, resp |-> resp]
NoDevice == [id |-> "", segment |-> "", location |-> ""]

Init ==
    /\ now = StartTime
    /\ mutex = FALSE
    /\ deviceConfig = [lastUpdate |-> ZeroTime, devices |-> << >>]
    /\ pc = [p \in Procs |-> "idle"]
    /\ rangeDevs = [p \in Procs |-> << >>]
    /\ idx = [p \in Procs |-> 0]
    /\ ch = [p \in Procs |-> << >>]
    /\ calls = [p \in Procs |-> << >>]
    /\ refresh = [p \in Procs |-> "none"]
    /\ snap = [p \in Procs |-> NoSnap]
    /\ ever = [attempted |-> FALSE, replaced |-> FALSE, prevBegan |-> ZeroTime,
               began |-> ZeroTime, ended |-> ZeroTime, outcome |-> "none"]
    /\ described = NoDescribe

(***************************************************************************)
(* The clock.                                                              *)
(***************************************************************************)
Tick ==
    /\ \E d \in TickSteps :
         /\ now + d <= MaxTime
         /\ now' = now + d
    /\ UNCHANGED <<mutex, deviceConfig, pc, rangeDevs, idx, ch, calls, refresh, snap, ever, described>>

(***************************************************************************)
(* Collect: the scrape trigger calls it, possibly concurrently.            *)
(***************************************************************************)
Call(p) ==
    /\ pc[p] = "idle"
    /\ pc' = [pc EXCEPT ![p] = "lock"]
    /\ UNCHANGED <<now, mutex, deviceConfig, rangeDevs, idx, ch, calls, refresh, snap, ever, described>>

\* a bug to compare with: entering without waiting for the mutex
LockWithoutWaiting(p) ==
    /\ pc[p] = "lock"
    /\ mutex' = TRUE
    /\ pc' = [pc EXCEPT ![p] = "discover"]
    /\ UNCHANGED <<now, deviceConfig, rangeDevs, idx, ch, calls, refresh, snap, ever, described>>

\* e.mutex.Lock()
Lock(p) ==
    /\ pc[p] = "lock"
    /\ mutex = FALSE
    /\ mutex' = TRUE
    /\ pc' = [pc EXCEPT ![p] = "discover"]
    /\ UNCHANGED <<now, deviceConfig, rangeDevs, idx, ch, calls, refresh, snap, ever, described>>

\* a bug to compare with: refreshing from 30 minutes on, not after 30 minutes
updateRequiredFrom30(dc, nowT) ==
    IsZero(dc.lastUpdate) \/ SinceMinutes(nowT, dc.lastUpdate) >= RefreshMinutes

updateRequired(dc, nowT) ==
    IsZero(dc.lastUpdate) \/ SinceMinutes(nowT, dc.lastUpdate) > RefreshMinutes

\* a bug to compare with: the defer registered before the test, so that a
\* scrape over a fresh inventory stamps lastUpdate too
DiscoverDeferBeforeTest(p) ==
    /\ pc[p] = "discover"
    /\ snap' = [snap EXCEPT ![p] = [lastUpdate |-> deviceConfig.lastUpdate,
                                    devices |-> deviceConfig.devices, at |-> now,
                                    priorEnded |-> ever.ended, priorOutcome |-> ever.outcome]]
    /\ \/ /\ updateRequired(deviceConfig, now)
          /\ refresh' = [refresh EXCEPT ![p] = "attempt"]
          /\ ever' = [ever EXCEPT !.attempted = TRUE, !.prevBegan = ever.began,
                                  !.began = now, !.outcome = "running"]
          /\ pc' = [pc EXCEPT ![p] = "discover_token"]
       \/ /\ ~updateRequired(deviceConfig, now)
          /\ refresh' = [refresh EXCEPT ![p] = "fresh"]
          /\ ever' = ever
          /\ pc' = [pc EXCEPT ![p] = "discover_defer"]
    /\ UNCHANGED <<now, mutex, deviceConfig, rangeDevs, idx, ch, calls, described>>

\* discover(): the test of updateRequired()
Discover(p) ==
    /\ pc[p] = "discover"
    /\ snap' = [snap EXCEPT ![p] = [lastUpdate |-> deviceConfig.lastUpdate,
                                    devices |-> deviceConfig.devices, at |-> now,
                                    priorEnded |-> ever.ended, priorOutcome |-> ever.outcome]]
    /\ \/ /\ updateRequired(deviceConfig, now)
          /\ refresh' = [refresh EXCEPT ![p] = "attempt"]
          /\ ever' = [ever EXCEPT !.attempted = TRUE, !.prevBegan = ever.began,
                                  !.began = now, !.outcome = "running"]
          /\ pc' = [pc EXCEPT ![p] = "discover_token"]
       \/ /\ ~updateRequired(deviceConfig, now)
          /\ refresh' = [refresh EXCEPT ![p] = "fresh"]
          /\ ever' = ever
          /\ pc' = [pc EXCEPT ![p] = "retrieve_token"]
    /\ UNCHANGED <<now, mutex, deviceConfig, rangeDevs, idx, ch, calls, described>>

\* discover(): e.tokenSource.Token()
DiscoverToken(p) ==
    /\ pc[p] = "discover_token"
    /\ \E resp \in TokenResponses :
         /\ calls' = [calls EXCEPT ![p] = Append(@, Logged("discover.Token", NoDevice, resp))]
         /\ \/ /\ resp.kind = "error"
               /\ refresh' = [refresh EXCEPT ![p] = "token_failed"]
               /\ ever' = [ever EXCEPT !.outcome = "token_failed"]
               /\ pc' = [pc EXCEPT ![p] = "discover_defer"]
            \/ /\ resp.kind = "ok"
               /\ refresh' = refresh
               /\ ever' = ever
               /\ pc' = [pc EXCEPT ![p] = "discover_get"]
    /\ UNCHANGED <<now, mutex, deviceConfig, rangeDevs, idx, ch, snap, described>>

\* a bug to compare with: storing the decoded list whatever Get returned
DevicesAfterGetIgnoringErr(resp, old) == BuildDevices(ResultDevices(resp))

\* a bug to compare with: appending the decoded list to the cached one
DevicesAfterGetAppending(resp, old) ==
    IF GetErr(resp) THEN old ELSE old \o BuildDevices(ResultDevices(resp))

\* e.deviceConfig.devices after the GET: kept on an error, else the decoded list
DevicesAfterGet(resp, old) ==
    IF GetErr(resp) THEN old ELSE BuildDevices(ResultDevices(resp))

\* discover(): the GET of /v1/devices and, when it returns no error, the
\* replacement of the device list by the decoded result
DiscoverGet(p) ==
    /\ pc[p] = "discover_get"
    /\ \E resp \in InventoryResponses :
         /\ calls' = [calls EXCEPT ![p] = Append(@, Logged("discover.GetDevices", NoDevice, resp))]
         /\ deviceConfig' = [deviceConfig EXCEPT !.devices = DevicesAfterGet(resp, @)]
         /\ \/ /\ GetErr(resp)
               /\ refresh' = [refresh EXCEPT ![p] = "get_failed"]
               /\ ever' = [ever EXCEPT !.outcome = "get_failed"]
            \/ /\ ~GetErr(resp)
               /\ refresh' = [refresh EXCEPT ![p] = "replaced"]
               /\ ever' = [ever EXCEPT !.replaced = TRUE, !.outcome = "replaced"]
    /\ pc' = [pc EXCEPT ![p] = "discover_defer"]
    /\ UNCHANGED <<now, mutex, rangeDevs, idx, ch, snap, described>>

\* a bug to compare with: stamping lastUpdate only when the list was replaced
DeferredLastUpdateOnSuccess(p) ==
    IF refresh[p] = "replaced" THEN now ELSE deviceConfig.lastUpdate

\* the value the deferred function of discover() stores: time.Now()
DeferredLastUpdate(p) == now

\* a bug to compare with: Collect returning when the refresh failed
NextAfterDiscoverEndOnFailure(p) ==
    IF refresh[p] \in {"token_failed", "get_failed"} THEN "unlock" ELSE "retrieve_token"

\* Collect after discover() has returned: e.retrieveMetrics(ch), on every path
NextAfterDiscover(p) == "retrieve_token"

\* discover(): the deferred e.deviceConfig.lastUpdate = time.Now()
DiscoverDefer(p) ==
    /\ pc[p] = "discover_defer"
    /\ deviceConfig' = [deviceConfig EXCEPT !.lastUpdate = DeferredLastUpdate(p)]
    /\ ever' = [ever EXCEPT !.ended = now]
    /\ pc' = [pc EXCEPT ![p] = NextAfterDiscover(p)]
    /\ UNCHANGED <<now, mutex, rangeDevs, idx, ch, calls, refresh, snap, described>>

\* a bug to compare with: going on to the devices although Token() failed
RetrieveTokenIgnoringErr(p) ==
    /\ pc[p] = "retrieve_token"
    /\ \E resp \in TokenResponses :
         /\ calls' = [calls EXCEPT ![p] = Append(@, Logged("retrieveMetrics.Token", NoDevice, resp))]
         /\ rangeDevs' = [rangeDevs EXCEPT ![p] = deviceConfig.devices]
         /\ idx' = [idx EXCEPT ![p] = 1]
         /\ pc' = [pc EXCEPT ![p] = "retrieve_loop"]
    /\ UNCHANGED <<now, mutex, deviceConfig, ch, refresh, snap, ever, described>>

\* retrieveMetrics(): e.tokenSource.Token(); on success the range loop starts
RetrieveToken(p) ==
    /\ pc[p] = "retrieve_token"
    /\ \E resp \in TokenResponses :
         /\ calls' = [calls EXCEPT ![p] = Append(@, Logged("retrieveMetrics.Token", NoDevice, resp))]
         /\ \/ /\ resp.kind = "error"
               /\ pc' = [pc EXCEPT ![p] = "unlock"]
               /\ UNCHANGED <<rangeDevs, idx>>
            \/ /\ resp.kind = "ok"
               /\ rangeDevs' = [rangeDevs EXCEPT ![p] = deviceConfig.devices]
               /\ idx' = [idx EXCEPT ![p] = 1]
               /\ pc' = [pc EXCEPT ![p] = "retrieve_loop"]
    /\ UNCHANGED <<now, mutex, deviceConfig, ch, refresh, snap, ever, described>>

\* the records sent for one device's response, in the order ord of its keys
Sent(d, resultData, ord) ==
    [n \in 1..Len(ord) |-> MetricFor(d, ord[n], resultData[ord[n]])]

\* a bug to compare with: leaving the loop at the first failed fetch
AfterFetchStopOnErr(p, resp) ==
    IF GetErr(resp) THEN Len(rangeDevs[p]) + 1 ELSE idx[p] + 1

\* the loop position after one device: the next device, also after an error
AfterFetch(p, resp) == idx[p] + 1

\* retrieveMetrics(): one iteration of the loop over the devices
RetrieveDevice(p) ==
    /\ pc[p] = "retrieve_loop"
    /\ idx[p] <= Len(rangeDevs[p])
    /\ LET d == rangeDevs[p][idx[p]] IN
       \E resp \in SampleResponses :
         /\ calls' = [calls EXCEPT ![p] = Append(@, Logged("retrieveMetrics.GetSamples", d, resp))]
         /\ idx' = [idx EXCEPT ![p] = AfterFetch(p, resp)]
         /\ \/ /\ GetErr(resp)
               /\ ch' = ch
            \/ /\ ~GetErr(resp)
               /\ \E ord \in Orderings(EmittedKeys(ResultData(resp))) :
                    ch' = [ch EXCEPT ![p] = @ \o Sent(d, ResultData(resp), ord)]
    /\ UNCHANGED <<now, mutex, deviceConfig, pc, rangeDevs, refresh, snap, ever, described>>

\* retrieveMetrics(): the loop is over
RetrieveDone(p) ==
    /\ pc[p] = "retrieve_loop"
    /\ idx[p] > Len(rangeDevs[p])
    /\ pc' = [pc EXCEPT ![p] = "unlock"]
    /\ UNCHANGED <<now, mutex, deviceConfig, rangeDevs, idx, ch, calls, refresh, snap, ever, described>>

\* the deferred e.mutex.Unlock(); Collect returns and its locals are gone
\* a bug to compare with: a return that leaves the mutex locked
UnlockLeftOut(p) ==
    /\ pc[p] = "unlock"
    /\ pc' = [pc EXCEPT ![p] = "idle"]
    /\ rangeDevs' = [rangeDevs EXCEPT ![p] = << >>]
    /\ idx' = [idx EXCEPT ![p] = 0]
    /\ ch' = [ch EXCEPT ![p] = << >>]
    /\ calls' = [calls EXCEPT ![p] = << >>]
    /\ refresh' = [refresh EXCEPT ![p] = "none"]
    /\ snap' = [snap EXCEPT ![p] = NoSnap]
    /\ UNCHANGED <<now, mutex, deviceConfig, ever, described>>

Unlock(p) ==
    /\ pc[p] = "unlock"
    /\ mutex' = FALSE
    /\ pc' = [pc EXCEPT ![p] = "idle"]
    /\ rangeDevs' = [rangeDevs EXCEPT ![p] = << >>]
    /\ idx' = [idx EXCEPT ![p] = 0]
    /\ ch' = [ch EXCEPT ![p] = << >>]
    /\ calls' = [calls EXCEPT ![p] = << >>]
    /\ refresh' = [refresh EXCEPT ![p] = "none"]
    /\ snap' = [snap EXCEPT ![p] = NoSnap]
    /\ UNCHANGED <<now, deviceConfig, ever, described>>

Collect(p) ==
    \/ Call(p)
    \/ Lock(p)
    \/ Discover(p)
    \/ DiscoverToken(p)
    \/ DiscoverGet(p)
    \/ DiscoverDefer(p)
    \/ RetrieveToken(p)
    \/ RetrieveDevice(p)
    \/ RetrieveDone(p)
    \/ Unlock(p)

Next == Tick \/ \E p \in Procs : Collect(p)

Spec == Init /\ [][Next]_vars

\* the steps of a call that holds the mutex, from discover() to the unlock
Running(p) ==
    \/ Discover(p)
    \/ DiscoverToken(p)
    \/ DiscoverGet(p)
    \/ DiscoverDefer(p)
    \/ RetrieveToken(p)
    \/ RetrieveDevice(p)
    \/ RetrieveDone(p)
    \/ Unlock(p)

\* Fair scheduling: a call that holds the mutex keeps running (its remote
\* calls return and its records are consumed), and a call that waits in
\* Lock() is not passed over for ever by later calls (sync.Mutex hands the
\* mutex to a waiter that has starved).  Nothing obliges Prometheus to
\* scrape or the clock to move.
FairSpec ==
    Spec /\ \A p \in Procs : WF_vars(Running(p)) /\ SF_vars(Lock(p))

(***************************************************************************)
(* Describe: the registry calls it at registration and may call it at any  *)
(* time; it takes no lock.                                                 *)
(***************************************************************************)
\* a bug to compare with: sending the descriptors of the keys seen in samples only
DescribeSentForSampleKeys ==
    LET descs == {airthingMetrics[m].Desc : m \in DOMAIN airthingMetrics \cap SampleKeys}
    IN [d \in descs |-> Cardinality({m \in DOMAIN airthingMetrics \cap SampleKeys :
                                       airthingMetrics[m].Desc = d})]

\* the loop of Describe: m.Desc sent once for every entry of airthingMetrics,
\* in the map's order; kept as the bag of what was sent
DescribeSent ==
    LET descs == {airthingMetrics[m].Desc : m \in DOMAIN airthingMetrics}
    IN [d \in descs |-> Cardinality({m \in DOMAIN airthingMetrics : airthingMetrics[m].Desc = d})]

Describe ==
    /\ described = NoDescribe
    /\ described' = [sent |-> DescribeSent, whileLocked |-> mutex]
    /\ UNCHANGED <<now, mutex, deviceConfig, pc, rangeDevs, idx, ch, calls, refresh, snap, ever>>

\* Describe has returned and its channel has been read
DescribeReturn ==
    /\ described # NoDescribe
    /\ described' = NoDescribe
    /\ UNCHANGED <<now, mutex, deviceConfig, pc, rangeDevs, idx, ch, calls, refresh, snap, ever>>

NextWithDescribe == Next \/ Describe \/ DescribeReturn

SpecWithDescribe == Init /\ [][NextWithDescribe]_vars

TypeOK ==
    /\ now \in StartTime..MaxTime
    /\ mutex \in BOOLEAN
    /\ deviceConfig.lastUpdate \in ZeroTime..MaxTime
    /\ Len(deviceConfig.devices) <= Cardinality(RemoteDevices)

(***************************************************************************)
(* Vocabulary of the properties.                                           *)
(***************************************************************************)
\* the call holds the mutex: it is between Lock() and Unlock()
InScrape(p) == pc[p] \notin {"idle", "lock"}

\* discover() has returned in the call
AfterDiscover(p) == pc[p] \in {"retrieve_token", "retrieve_loop", "unlock"}

\* discover() entered its refresh branch in the call
Attempted(p) == refresh[p] \in {"attempt", "token_failed", "get_failed", "replaced"}

\* discover() left its refresh branch by one of its two error returns
RefreshFailed(p) == refresh[p] \in {"token_failed", "get_failed"}

\* the remote calls of one kind a call has made so far
CallsOf(p, op) == {n \in 1..Len(calls[p]) : calls[p][n].op = op}

(***************************************************************************)
(* C1: at most one Collect call is between acquiring and releasing the     *)
(* exporter mutex, so at most one burst of API calls is in flight and the  *)
(* steps of two scrapes never interleave; the mutex is held whenever a     *)
(* call is in that section.                                                *)
(***************************************************************************)
C1_Serialized ==
    /\ Cardinality({p \in Procs : InScrape(p)}) <= 1
    /\ \A p \in Procs : InScrape(p) => mutex
    /\ \A p \in Procs : ~InScrape(p) => calls[p] = << >> /\ ch[p] = << >>

\* one call is fetching samples while another waits for the mutex
C1_Witness ==
    \E p, q \in Procs :
        /\ p # q
        /\ pc[p] = "retrieve_loop"
        /\ CallsOf(p, "retrieveMetrics.GetSamples") # {}
        /\ pc[q] = "lock"

(***************************************************************************)
(* C2: a scrape attempts a refresh exactly when, at its start, lastUpdate  *)
(* is zero or more than 30 minutes before the clock; with lastUpdate set   *)
(* and at most 30 minutes old (30 included) the scrape makes no attempt:   *)
(* no token is asked for the refresh and no inventory request is issued.   *)
(***************************************************************************)
C2_RefreshIffStale ==
    \A p \in Procs :
        refresh[p] # "none" =>
            LET stale == snap[p].lastUpdate = 0 \/ snap[p].at - snap[p].lastUpdate > 30
            IN /\ Attempted(p) <=> stale
               /\ refresh[p] = "fresh" <=> ~stale
               /\ ~stale => /\ CallsOf(p, "discover.Token") = {}
                            /\ CallsOf(p, "discover.GetDevices") = {}
               /\ (stale /\ pc[p] # "discover_token") => CallsOf(p, "discover.Token") = {1}

\* a scrape that began exactly 30 minutes after the last refresh has ended
\* without a refresh
C2_Witness ==
    \E p \in Procs :
        /\ pc[p] = "unlock"
        /\ refresh[p] = "fresh"
        /\ snap[p].at - snap[p].lastUpdate = 30
        /\ CallsOf(p, "discover.GetDevices") = {}

(***************************************************************************)
(* C3: a refresh that fails, by a token error or by an error of the        *)
(* inventory request, leaves the cached device list as it was before the   *)
(* attempt: the same devices, the same count.                              *)
(***************************************************************************)
C3_FailedRefreshKeepsDevices ==
    \A p \in Procs :
        RefreshFailed(p) =>
            /\ deviceConfig.devices = snap[p].devices
            /\ Len(deviceConfig.devices) = Len(snap[p].devices)

\* an inventory request has failed over a cached list of two devices, which
\* is still there
C3_Witness ==
    \E p \in Procs :
        /\ refresh[p] = "get_failed"
        /\ AfterDiscover(p)
        /\ Len(snap[p].devices) = 2
        /\ deviceConfig.devices = snap[p].devices

(***************************************************************************)
(* C4: an inventory response with a non-2xx status or a malformed body is  *)
(* an error of the fetch: the cached device list is not replaced by the    *)
(* empty result of such a response.                                        *)
(***************************************************************************)
C4_BadResponseKeepsDevices ==
    \A p \in Procs :
        \A n \in CallsOf(p, "discover.GetDevices") :
            calls[p][n].resp.kind \in {"non_2xx", "malformed_body"} =>
                deviceConfig.devices = snap[p].devices

(***************************************************************************)
(* C5: the step that ends a refresh attempt, whatever its outcome (list    *)
(* replaced, token error, inventory request error), stores the clock's     *)
(* reading at that moment in lastUpdate, which is then not the zero time;  *)
(* and discover() returns from an attempt by no other step.                *)
(***************************************************************************)
C5_AttemptStampsLastUpdate ==
    [][\A p \in Procs :
         (Attempted(p) /\ ~AfterDiscover(p) /\ AfterDiscover(p)') =>
             /\ deviceConfig'.lastUpdate = now
             /\ deviceConfig'.lastUpdate # ZeroTime]_vars

\* a refresh attempt that failed at the token has been stamped with a later
\* time than the previous refresh
C5_Witness ==
    \E p \in Procs :
        /\ AfterDiscover(p)
        /\ refresh[p] = "token_failed"
        /\ snap[p].lastUpdate # ZeroTime
        /\ deviceConfig.lastUpdate = now
        /\ deviceConfig.lastUpdate > snap[p].lastUpdate

(***************************************************************************)
(* Vocabulary of the properties about the emitted records.                 *)
(***************************************************************************)
Labels(d) == <<d.id, d.segment, d.location>>

\* the readings of a decoded response that are to be exported: the key is a
\* registry key and the value is a number
GoodReadings(data) ==
    {k \in DOMAIN data : k \in DOMAIN airthingMetrics /\ data[k].type = "float64"}

\* the sample fetches a call has made so far, in order
SampleCalls(p) == SelectSeq(calls[p], LAMBDA e : e.op = "retrieveMetrics.GetSamples")

\* the number of records a logged sample fetch is to contribute
Contribution(e) ==
    IF e.resp.kind = "ok" THEN Cardinality(GoodReadings(e.resp.data)) ELSE 0

RECURSIVE SumContributions(_)
SumContributions(log) ==
    IF log = << >> THEN 0 ELSE Contribution(Head(log)) + SumContributions(Tail(log))

\* the records a call has sent that carry the labels of device d
RecordsFor(p, d) == {n \in 1..Len(ch[p]) : ch[p][n].labelValues = Labels(d)}

\* the record that is to be exported for reading k of a logged sample fetch
ExpectedRecord(e, k) ==
    [desc |-> airthingMetrics[k].Desc, valueType |-> "GaugeValue",
     value |-> e.resp.data[k].num, labelValues |-> Labels(e.dev)]

RECURSIVE ExpectedBag(_)
ExpectedBag(log) ==
    IF log = << >> THEN EmptyBag
    ELSE LET e == Head(log)
             mine == IF e.resp.kind = "ok"
                     THEN SetToBag({ExpectedRecord(e, k) : k \in GoodReadings(e.resp.data)})
                     ELSE EmptyBag
         IN mine (+) ExpectedBag(Tail(log))

RECURSIVE SeqToBag(_)
SeqToBag(q) ==
    IF q = << >> THEN EmptyBag ELSE SetToBag({Head(q)}) (+) SeqToBag(Tail(q))

(***************************************************************************)
(* C6: in the emission phase every device of the cached list has its       *)
(* samples fetched, in list order, whatever happened to the fetches before *)
(* it; a device whose fetch fails contributes no record, and every device  *)
(* has exactly as many records as its own successful fetches contain       *)
(* exportable readings.                                                    *)
(***************************************************************************)
C6_FetchFailureIsolated ==
    \A p \in Procs :
        (pc[p] \in {"retrieve_loop", "unlock"} /\ idx[p] > 0) =>
            LET fetched == SampleCalls(p) IN
            /\ Len(fetched) = idx[p] - 1
            /\ idx[p] <= Len(rangeDevs[p]) + 1
            /\ pc[p] = "unlock" => Len(fetched) = Len(rangeDevs[p])
            /\ \A n \in 1..Len(fetched) : fetched[n].dev = rangeDevs[p][n]
            /\ \A n \in 1..Len(rangeDevs[p]) :
                 LET d == rangeDevs[p][n] IN
                 Cardinality(RecordsFor(p, d)) =
                     SumContributions(SelectSeq(fetched, LAMBDA e : e.dev = d))
            /\ Len(ch[p]) = SumContributions(fetched)

\* two devices cached, the first one's fetch errs, the second returns one
\* exportable reading: exactly one record, with the second device's labels
C6_Witness ==
    \E p \in Procs :
        /\ pc[p] = "unlock"
        /\ Len(rangeDevs[p]) = 2
        /\ rangeDevs[p][1] # rangeDevs[p][2]
        /\ Len(SampleCalls(p)) = 2
        /\ SampleCalls(p)[1].resp.kind = "transport_error"
        /\ SampleCalls(p)[2].resp.kind = "ok"
        /\ Len(ch[p]) = 1
        /\ ch[p][1].labelValues = Labels(rangeDevs[p][2])

(***************************************************************************)
(* C7 as stated: a scrape in which any token acquisition fails, the one of *)
(* the refresh or the one of the emission phase, is aborted: it fetches no *)
(* samples and emits no record.                                            *)
(***************************************************************************)
C7_AnyTokenFailureAborts ==
    \A p \in Procs :
        (\E n \in CallsOf(p, "discover.Token") \cup CallsOf(p, "retrieveMetrics.Token") :
             calls[p][n].resp.kind = "error") =>
            /\ ch[p] = << >>
            /\ CallsOf(p, "retrieveMetrics.GetSamples") = {}

(***************************************************************************)
(* C7 amended: a token failure in the emission phase ends the scrape with  *)
(* no sample request and no record; a token failure in the refresh ends    *)
(* only the refresh: no inventory request is made and the device list is   *)
(* unchanged (an empty cache stays empty).                                 *)
(***************************************************************************)
C7_EmissionTokenFailureAborts ==
    \A p \in Procs :
        /\ (\E n \in CallsOf(p, "retrieveMetrics.Token") : calls[p][n].resp.kind = "error") =>
              /\ pc[p] = "unlock"
              /\ ch[p] = << >>
              /\ CallsOf(p, "retrieveMetrics.GetSamples") = {}
        /\ refresh[p] = "token_failed" =>
              /\ CallsOf(p, "discover.GetDevices") = {}
              /\ deviceConfig.devices = snap[p].devices

\* over a non-empty cache the emission phase's token failed and the scrape
\* ended with nothing sent
C7_Witness ==
    \E p \in Procs :
        /\ pc[p] = "unlock"
        /\ Len(deviceConfig.devices) > 0
        /\ \E n \in CallsOf(p, "retrieveMetrics.Token") : calls[p][n].resp.kind = "error"
        /\ ch[p] = << >>

(***************************************************************************)
(* C8: every record a scrape has sent stems from a reading, in a decoded   *)
(* response for the device whose labels it carries, whose key is in the    *)
(* registry and whose value is a number, and carries that value and that   *)
(* key's descriptor; so a non-numeric value or a key outside the registry  *)
(* never yields a record, and the scrape goes on past such readings.       *)
(***************************************************************************)
C8_OnlyNumericRegistryReadings ==
    \A p \in Procs :
        \A n \in 1..Len(ch[p]) :
             \E m \in CallsOf(p, "retrieveMetrics.GetSamples") :
                 LET e == calls[p][m] IN
                 /\ e.resp.kind = "ok"
                 /\ Labels(e.dev) = ch[p][n].labelValues
                 /\ \E k \in DOMAIN e.resp.data :
                      /\ k \in DOMAIN airthingMetrics
                      /\ e.resp.data[k].type = "float64"
                      /\ ch[p][n].value = e.resp.data[k].num
                      /\ ch[p][n].desc = airthingMetrics[k].Desc

\* a response with a string under a registry key, a number under
\* relayDeviceType and one good reading has produced just the good record,
\* and the loop has gone on to the end
C8_Witness ==
    \E p \in Procs :
        /\ pc[p] = "unlock"
        /\ Len(SampleCalls(p)) = 1
        /\ SampleCalls(p)[1].resp.kind = "ok"
        /\ SampleCalls(p)[1].resp.data =
               (CO2 :> JsonString("wave_plus")) @@ (DeviceType :> JsonNumber(450))
               @@ (Temperature :> JsonNumber(450))
        /\ Len(ch[p]) = 1
        /\ ch[p][1].desc = airthingMetrics[Temperature].Desc

(***************************************************************************)
(* C9: the records a scrape has sent are, as a multiset, exactly one       *)
(* record per reading with a registry key and a numeric value in the       *)
(* decoded responses of its sample fetches, each with that key's           *)
(* descriptor, the reading's value and the id, segment and location of the *)
(* device the fetch was made for, which is the device at that place of the *)
(* cached list.                                                            *)
(***************************************************************************)
C9_RecordsExactlyGoodReadings ==
    \A p \in Procs :
        /\ SeqToBag(ch[p]) = ExpectedBag(SampleCalls(p))
        /\ pc[p] \in {"retrieve_loop", "unlock"} /\ idx[p] > 0 =>
              /\ rangeDevs[p] = deviceConfig.devices
              /\ \A n \in 1..Len(SampleCalls(p)) :
                   SampleCalls(p)[n].dev = deviceConfig.devices[n]

\* the cache holds d1 (Office, HQ); its fetch returned co2 450 and
\* relayDeviceType "wave_plus": one record, the CO2 gauge, 450, (d1, Office, HQ)
C9_Witness ==
    \E p \in Procs :
        /\ pc[p] = "unlock"
        /\ deviceConfig.devices = <<[id |-> "d1", segment |-> "Office", location |-> "HQ"]>>
        /\ Len(SampleCalls(p)) = 1
        /\ SampleCalls(p)[1].resp.kind = "ok"
        /\ SampleCalls(p)[1].resp.data =
               (CO2 :> JsonNumber(450)) @@ (DeviceType :> JsonString("wave_plus"))
        /\ ch[p] = <<[desc |-> [fqName |-> "airthings_cloud_co2", help |-> "CO2 levels",
                                variableLabels |-> <<"device", "segment", "location">>],
                      valueType |-> "GaugeValue", value |-> 450,
                      labelValues |-> <<"d1", "Office", "HQ">>]>>

(***************************************************************************)
(* C10 as stated: lastUpdate is zero unless some refresh has replaced the  *)
(* list, and a failed refresh leaves the device list and the timestamp as  *)
(* they were.                                                              *)
(***************************************************************************)
C10_ZeroUntilSuccess ==
    /\ deviceConfig.lastUpdate # ZeroTime => ever.replaced
    /\ \A p \in Procs :
         (RefreshFailed(p) /\ AfterDiscover(p)) =>
             /\ deviceConfig.devices = snap[p].devices
             /\ deviceConfig.lastUpdate = snap[p].lastUpdate

(***************************************************************************)
(* C10 amended: lastUpdate is zero until the first refresh attempt, and is *)
(* non-zero once an attempt has been completed, whether it succeeded or    *)
(* failed; a failed refresh leaves the device list as it was and moves the *)
(* timestamp to the time the attempt ended.                                *)
(***************************************************************************)
C10_ZeroUntilAttempt ==
    /\ deviceConfig.lastUpdate # ZeroTime => ever.attempted
    /\ (ever.attempted /\ \A p \in Procs : Attempted(p) => AfterDiscover(p)) =>
           deviceConfig.lastUpdate # ZeroTime
    /\ \A p \in Procs :
         (RefreshFailed(p) /\ AfterDiscover(p)) =>
             /\ deviceConfig.devices = snap[p].devices
             /\ deviceConfig.lastUpdate # snap[p].lastUpdate
             /\ deviceConfig.lastUpdate >= snap[p].at
             /\ deviceConfig.lastUpdate <= now

\* the first refresh has failed and no refresh has ever replaced the list,
\* yet lastUpdate is set
C10_Witness ==
    \E p \in Procs :
        /\ AfterDiscover(p)
        /\ RefreshFailed(p)
        /\ ~ever.replaced
        /\ snap[p].lastUpdate = ZeroTime
        /\ deviceConfig.lastUpdate # ZeroTime

\* the emission phase's token call of a scrape, when it has been made
EmissionToken(p) == {calls[p][n].resp.kind : n \in CallsOf(p, "retrieveMetrics.Token")}

(***************************************************************************)
(* C11 as stated: a scrape whose refresh failed still fetches the samples  *)
(* of every device in the cache and emits their valid readings.            *)
(***************************************************************************)
C11_FailedRefreshStillFetchesAll ==
    \A p \in Procs :
        (RefreshFailed(p) /\ pc[p] = "unlock") =>
            /\ Len(SampleCalls(p)) = Len(deviceConfig.devices)
            /\ \A n \in 1..Len(SampleCalls(p)) : SampleCalls(p)[n].dev = deviceConfig.devices[n]
            /\ SeqToBag(ch[p]) = ExpectedBag(SampleCalls(p))

(***************************************************************************)
(* C11 amended: a scrape whose refresh failed still enters the emission    *)
(* phase, which asks for its own token; when that token is obtained the    *)
(* scrape fetches the samples of every device in the (unchanged) cache, in *)
(* order, and emits their valid readings; when it is not, the scrape ends  *)
(* with no sample request.                                                 *)
(***************************************************************************)
C11_FailedRefreshStillEmits ==
    \A p \in Procs :
        (RefreshFailed(p) /\ pc[p] = "unlock") =>
            /\ EmissionToken(p) \in {{"ok"}, {"error"}}
            /\ EmissionToken(p) = {"error"} => SampleCalls(p) = << >>
            /\ EmissionToken(p) = {"ok"} =>
                 /\ deviceConfig.devices = snap[p].devices
                 /\ Len(SampleCalls(p)) = Len(deviceConfig.devices)
                 /\ \A n \in 1..Len(SampleCalls(p)) :
                      SampleCalls(p)[n].dev = deviceConfig.devices[n]
                 /\ SeqToBag(ch[p]) = ExpectedBag(SampleCalls(p))

\* the inventory request failed over a cached device, whose samples were
\* then fetched and whose reading was emitted in the same scrape
C11_Witness ==
    \E p \in Procs :
        /\ pc[p] = "unlock"
        /\ refresh[p] = "get_failed"
        /\ Len(snap[p].devices) = 1
        /\ Len(SampleCalls(p)) = 1
        /\ Len(ch[p]) = 1
        /\ ch[p][1].labelValues = Labels(snap[p].devices[1])

(***************************************************************************)
(* C12: two consecutive refresh attempts begin more than 30 minutes apart, *)
(* whatever the outcome of the earlier one: a failed refresh is not        *)
(* retried inside the 30-minute cooldown.                                  *)
(***************************************************************************)
C12_AttemptsFarApart ==
    /\ ever.prevBegan # ZeroTime => ever.began - ever.prevBegan > 30
    /\ \A p \in Procs : refresh[p] = "attempt" => ever.began = snap[p].at

\* a second attempt has begun 31 minutes after the first, and no attempt
\* has replaced the list: the first one failed
C12_Witness ==
    /\ ever.prevBegan # ZeroTime
    /\ ever.began - ever.prevBegan = 31
    /\ ever.outcome = "running"
    /\ ~ever.replaced

(***************************************************************************)
(* C13: Describe can run in any state, also while a Collect call holds the *)
(* mutex; it sends exactly one descriptor for each of the nine registry    *)
(* entries, makes no token or API request, and leaves the device list,     *)
(* lastUpdate, the mutex and every Collect call as they were.              *)
(***************************************************************************)
C13_DescribeIndependent ==
    /\ [](described = NoDescribe => ENABLED Describe)
    /\ [][(described = NoDescribe /\ described' # NoDescribe) =>
            /\ Cardinality(DOMAIN airthingMetrics) = 9
            /\ BagCardinality(described'.sent) = 9
            /\ \A m \in DOMAIN airthingMetrics :
                 CopiesIn(airthingMetrics[m].Desc, described'.sent) = 1
            /\ calls' = calls
            /\ deviceConfig' = deviceConfig
            /\ mutex' = mutex
            /\ pc' = pc
            /\ ch' = ch]_vars

\* Describe has sent its nine descriptors while a Collect call was in its
\* loop over the devices, holding the mutex
C13_Witness ==
    /\ described.whileLocked
    /\ BagCardinality(described.sent) = 9
    /\ \E p \in Procs : pc[p] = "retrieve_loop" /\ SampleCalls(p) # << >>

\* the inventory response a scrape's refresh got, when it was a 2xx body
InventoryOf(p) ==
    {calls[p][n].resp.devices : n \in {m \in CallsOf(p, "discover.GetDevices") :
                                           calls[p][m].resp.kind = "ok"}}

\* the device list an inventory response is to become
ListOf(rs) ==
    [n \in 1..Len(rs) |-> [id |-> rs[n].Id, segment |-> rs[n].Segment.Name,
                           location |-> rs[n].Location.Name]]

(***************************************************************************)
(* C14: after a successful refresh the cached list is exactly the devices  *)
(* of the inventory response, in its order, each with its id, segment name *)
(* and location name, with nothing of the previous list kept (an empty     *)
(* response gives an empty cache); the replacement is one step, and the    *)
(* emission phase of the same scrape goes through exactly this list.       *)
(***************************************************************************)
C14_RefreshReplacesList ==
    /\ [](\A p \in Procs : \A rs \in InventoryOf(p) :
            /\ deviceConfig.devices = ListOf(rs)
            /\ (pc[p] \in {"retrieve_loop", "unlock"} /\ idx[p] > 0) =>
                  /\ rangeDevs[p] = ListOf(rs)
                  /\ \A n \in 1..Len(SampleCalls(p)) : SampleCalls(p)[n].dev = ListOf(rs)[n]
                  /\ pc[p] = "unlock" => Len(SampleCalls(p)) = Len(rs))
    /\ [][\A p \in Procs : \A rs \in InventoryOf(p)' :
            (pc[p] = "discover_get" /\ pc'[p] # pc[p]) =>
                /\ deviceConfig.devices = snap[p].devices
                /\ deviceConfig'.devices = ListOf(rs)]_vars

\* the cache held d1; the refresh's response listed d2 only; the cache is
\* now d2 with its segment and location names, and only d2 was fetched
C14_Witness ==
    \E p \in Procs :
        /\ pc[p] = "unlock"
        /\ snap[p].devices = <<[id |-> "d1", segment |-> "Office", location |-> "HQ"]>>
        /\ InventoryOf(p) = {<<AirthingDevice("d2", "Lab", "Annex")>>}
        /\ deviceConfig.devices = <<[id |-> "d2", segment |-> "Lab", location |-> "Annex"]>>
        /\ Len(SampleCalls(p)) = 1
        /\ SampleCalls(p)[1].dev.id = "d2"

(***************************************************************************)
(* C15: the device list and lastUpdate are written only by the call that   *)
(* holds the mutex, and only in the refresh branch of discover(): the list *)
(* by the step after the inventory request, lastUpdate by the deferred     *)
(* stamp.  The emission phase, with its token and fetch failures, and a    *)
(* scrape that finds the inventory fresh leave both as they were.          *)
(***************************************************************************)
C15_CacheWrittenOnlyByRefresh ==
    /\ [](\A p \in Procs :
            (refresh[p] = "fresh" \/ (Attempted(p) /\ AfterDiscover(p))) =>
                LET atReturn == IF refresh[p] = "fresh" THEN snap[p].lastUpdate
                                ELSE ever.ended
                IN /\ refresh[p] = "fresh" => deviceConfig.devices = snap[p].devices
                   /\ deviceConfig.lastUpdate = atReturn)
    /\ [][deviceConfig' # deviceConfig =>
            \E p \in Procs :
                /\ mutex
                /\ Attempted(p)
                /\ pc[p] \in {"discover_get", "discover_defer"}
                /\ pc'[p] # pc[p]
                /\ \A q \in Procs \ {p} : ~InScrape(q)
                /\ deviceConfig'.devices # deviceConfig.devices => pc[p] = "discover_get"
                /\ deviceConfig'.lastUpdate # deviceConfig.lastUpdate => pc[p] = "discover_defer"]_vars

\* a scrape over a fresh inventory had a device fetch fail and ended with
\* the list and lastUpdate it began with
C15_Witness ==
    \E p \in Procs :
        /\ pc[p] = "unlock"
        /\ refresh[p] = "fresh"
        /\ snap[p].devices # << >>
        /\ \E n \in 1..Len(SampleCalls(p)) : SampleCalls(p)[n].resp.kind = "transport_error"
        /\ deviceConfig = [lastUpdate |-> snap[p].lastUpdate, devices |-> snap[p].devices]

(***************************************************************************)
(* C17: when the latest refresh attempt failed over an empty device list,  *)
(* a scrape that begins within 30 minutes of that attempt's end makes no   *)
(* refresh attempt and no inventory request, makes no sample request and   *)
(* sends no record, whatever the token source and the API would answer.    *)
(***************************************************************************)
C17_FailureOverEmptyCacheIsMasked ==
    \A p \in Procs :
        ( /\ refresh[p] # "none"
          /\ snap[p].priorOutcome \in {"token_failed", "get_failed"}
          /\ snap[p].devices = << >>
          /\ snap[p].at - snap[p].priorEnded <= 30 ) =>
            /\ refresh[p] = "fresh"
            /\ CallsOf(p, "discover.Token") = {}
            /\ CallsOf(p, "discover.GetDevices") = {}
            /\ CallsOf(p, "retrieveMetrics.GetSamples") = {}
            /\ ch[p] = << >>
            /\ deviceConfig.devices = << >>

\* 30 minutes after a failed first refresh a scrape obtained its token and
\* ended without any request to the API and without a record
C17_Witness ==
    \E p \in Procs :
        /\ pc[p] = "unlock"
        /\ snap[p].priorOutcome = "get_failed"
        /\ snap[p].devices = << >>
        /\ snap[p].at - snap[p].priorEnded = 30
        /\ EmissionToken(p) = {"ok"}
        /\ Len(calls[p]) = 1
        /\ ch[p] = << >>

(***************************************************************************)
(* C16: every Collect unlocks the mutex when it returns, on every path, so *)
(* that the mutex is free whenever no call is between Lock() and its       *)
(* return, and a call leaves the scrape only by that unlock; under fair    *)
(* scheduling every started scrape returns (no call stays between Lock()   *)
(* and its return for ever) and every call that waits for the mutex gets   *)
(* it (no call stays in Lock() for ever).                                  *)
(***************************************************************************)
C16_MutexReleasedScrapesEnd ==
    /\ []((\A p \in Procs : ~InScrape(p)) => ~mutex)
    /\ [][\A p \in Procs : (InScrape(p) /\ ~InScrape(p)') =>
            (pc[p] = "unlock" /\ pc'[p] = "idle" /\ ~mutex')]_vars
    /\ \A p \in Procs : []<>(~InScrape(p))
    /\ \A p \in Procs : []<>(pc[p] # "lock")

\* a call waits for the mutex while the holder is about to return from a
\* scrape whose refresh failed and whose emission phase got no token
C16_Witness ==
    \E p, q \in Procs :
        /\ pc[p] = "lock"
        /\ pc[q] = "unlock"
        /\ mutex
        /\ RefreshFailed(q)
        /\ EmissionToken(q) = {"error"}

====
